---- MODULE Spec2Model ----
(***************************************************************************)
(* Model of blog/models.py: the Post, Tag and Comment tables, the rows of  *)
(* the two many-to-many relations (likes, tags), the writes that store and *)
(* delete rows, and the query helpers of TagQuerySet and PostQuerySet.     *)
(***************************************************************************)
EXTENDS Integers, Sequences, FiniteSets, TLC

\* ------------------------------------------------------------------ bounds
NUsers == 2
MaxPosts == 2
MaxTags == 2
MaxComments == 2
MaxTime == 2
MaxTitleLen == 2
MaxColl == 2

Users == 1..NUsers
Times == 1..MaxTime
Chars == {"A", "a", "b"}

VARIABLES
    users,            \* auth_user: the ids of the stored users
    is_staff,         \* auth_user.is_staff, per user
    posts,            \* blog_post: id -> [author, published_at, via]; via is history:
                      \* "form" when the row was last stored through validation
                      \* (full_clean), "save" when by a direct save or create
    next_post_id,     \* the next autoincrement id of blog_post
    likes,            \* blog_post_likes: rows <<post, user>>
    post_tags,        \* blog_post_tags: rows <<post, tag>>
    tags,             \* blog_tag: id -> [title, via], via as for posts
    next_tag_id,      \* the next autoincrement id of blog_tag
    comments,         \* blog_comment: id -> [post, author, published_at]
    next_comment_id,  \* the next autoincrement id of blog_comment
    pc,               \* position of the request inside fetch_with_comments_count
    self_cache,       \* the queryset's _result_cache: the in-memory posts
    count_for_id,     \* the dict built at line 44
    snap,             \* history: the tables as the count query of line 42 saw them
    result,           \* the rows the last evaluated queryset returned
    queries           \* the number of SQL queries the last evaluation has issued

db == <<users, is_staff, posts, next_post_id, likes, post_tags, tags,
        next_tag_id, comments, next_comment_id>>
req == <<pc, self_cache, count_for_id, snap>>
out == <<result, queries>>
vars == <<users, is_staff, posts, next_post_id, likes, post_tags, tags,
          next_tag_id, comments, next_comment_id, pc, self_cache,
          count_for_id, snap, result, queries>>

\* ----------------------------------------------------------------- helpers
Range(s) == {s[i] : i \in 1..Len(s)}

RECURSIVE SeqsUpTo(_, _)
SeqsUpTo(S, n) ==
    IF n = 0 THEN {<<>>}
    ELSE LET shorter == SeqsUpTo(S, n - 1)
         IN  shorter \cup {Append(s, x) : s \in {t \in shorter : Len(t) = n - 1}, x \in S}

\* Every arrangement of the finite set S as a sequence without repetition.
Perms(S) ==
    {s \in SeqsUpTo(S, Cardinality(S)) : Len(s) = Cardinality(S) /\ Range(s) = S}

Titles == SeqsUpTo(Chars, MaxTitleLen) \ {<<>>}

NoResult == [op |-> "none", self |-> {}, rows |-> <<>>]
NoSnap == [posts |-> {}, comments |-> <<>>]

Init ==
    /\ users = Users
    /\ is_staff = [u \in Users |-> TRUE]
    /\ posts = <<>>
    /\ next_post_id = 1
    /\ likes = {}
    /\ post_tags = {}
    /\ tags = <<>>
    /\ next_tag_id = 1
    /\ comments = <<>>
    /\ next_comment_id = 1
    /\ pc = "idle"
    /\ self_cache = <<>>
    /\ count_for_id = <<>>
    /\ snap = NoSnap
    /\ result = NoResult
    /\ queries = 0

\* ------------------------------------------------- Post, Comment, User
\* ForeignKey(..., on_delete=models.CASCADE) of Comment.post with the cascade
\* left out: the comments of a deleted post stay.
CommentsKept(gonePosts, goneUsers) == comments

\* ForeignKey(..., on_delete=models.CASCADE) on Comment.post and on
\* Comment.author: the comments left once the rows of gonePosts and of
\* goneUsers are deleted.
CommentsAfterDelete(gonePosts, goneUsers) ==
    LET keep == {c \in DOMAIN comments :
                    /\ comments[c].post \notin gonePosts
                    /\ comments[c].author \notin goneUsers}
    IN  [c \in keep |-> comments[c]]

\* limit_choices_to left out: any stored user passes.
limit_choices_any(u) == u \in users

\* limit_choices_to={'is_staff': True} (line 62), as ForeignKey.validate
\* applies it during full_clean(): the user exists and is staff.
limit_choices_to(u) == u \in users /\ is_staff[u]

PutPost(p, author, at, via) ==
    posts' = [x \in DOMAIN posts \cup {p} |->
                IF x = p THEN [author |-> author, published_at |-> at, via |-> via]
                ELSE posts[x]]

\* Post.objects.create(...): the row is inserted as given; the foreign key
\* needs the author to be a stored user, and nothing looks at is_staff.
PostCreate(author, at) ==
    /\ next_post_id <= MaxPosts
    /\ author \in users
    /\ PutPost(next_post_id, author, at, "save")
    /\ next_post_id' = next_post_id + 1
    /\ UNCHANGED <<users, is_staff, likes, post_tags, tags, next_tag_id,
                   comments, next_comment_id, req, out>>

\* A ModelForm / admin add of a post: full_clean() validates the author
\* against limit_choices_to before the row is inserted.
PostFormCreate(author, at) ==
    /\ next_post_id <= MaxPosts
    /\ limit_choices_to(author)
    /\ PutPost(next_post_id, author, at, "form")
    /\ next_post_id' = next_post_id + 1
    /\ UNCHANGED <<users, is_staff, likes, post_tags, tags, next_tag_id,
                   comments, next_comment_id, req, out>>

\* post.author = ...; post.save()
PostSave(p, author) ==
    /\ p \in DOMAIN posts
    /\ author \in users
    /\ PutPost(p, author, posts[p].published_at, "save")
    /\ UNCHANGED <<users, is_staff, next_post_id, likes, post_tags, tags,
                   next_tag_id, comments, next_comment_id, req, out>>

\* A ModelForm / admin change of a stored post.
PostFormSave(p, author) ==
    /\ p \in DOMAIN posts
    /\ limit_choices_to(author)
    /\ PutPost(p, author, posts[p].published_at, "form")
    /\ UNCHANGED <<users, is_staff, next_post_id, likes, post_tags, tags,
                   next_tag_id, comments, next_comment_id, req, out>>

\* post.delete(): the collector deletes the comments of the post (CASCADE)
\* and the post's rows of both many-to-many tables.
PostDelete(p) ==
    /\ p \in DOMAIN posts
    /\ posts' = [x \in DOMAIN posts \ {p} |-> posts[x]]
    /\ comments' = CommentsAfterDelete({p}, {})
    /\ likes' = {r \in likes : r[1] # p}
    /\ post_tags' = {r \in post_tags : r[1] # p}
    /\ UNCHANGED <<users, is_staff, next_post_id, tags, next_tag_id,
                   next_comment_id, req, out>>

\* user.is_staff = b; user.save()
UserSetStaff(u, b) ==
    /\ u \in users
    /\ is_staff[u] # b
    /\ is_staff' = [is_staff EXCEPT ![u] = b]
    /\ UNCHANGED <<users, posts, next_post_id, likes, post_tags, tags,
                   next_tag_id, comments, next_comment_id, req, out>>

\* user.delete(): Post.author and Comment.author are CASCADE, so the user's
\* posts go (and with them their comments), the user's comments go, and the
\* user's likes go.
UserDelete(u) ==
    LET gone == {p \in DOMAIN posts : posts[p].author = u}
    IN  /\ u \in users
        /\ users' = users \ {u}
        /\ posts' = [x \in DOMAIN posts \ gone |-> posts[x]]
        /\ comments' = CommentsAfterDelete(gone, {u})
        /\ likes' = {r \in likes : r[1] \notin gone /\ r[2] # u}
        /\ post_tags' = {r \in post_tags : r[1] \notin gone}
        /\ UNCHANGED <<is_staff, next_post_id, tags, next_tag_id,
                       next_comment_id, req, out>>

\* Comment.objects.create(post=..., author=..., ...): both foreign keys must
\* name stored rows.
CommentCreate(p, author, at) ==
    /\ next_comment_id <= MaxComments
    /\ p \in DOMAIN posts
    /\ author \in users
    /\ comments' = [c \in DOMAIN comments \cup {next_comment_id} |->
                       IF c = next_comment_id
                       THEN [post |-> p, author |-> author, published_at |-> at]
                       ELSE comments[c]]
    /\ next_comment_id' = next_comment_id + 1
    /\ UNCHANGED <<users, is_staff, posts, next_post_id, likes, post_tags,
                   tags, next_tag_id, req, out>>

\* comment.delete()
CommentDelete(c) ==
    /\ c \in DOMAIN comments
    /\ comments' = [x \in DOMAIN comments \ {c} |-> comments[x]]
    /\ UNCHANGED <<users, is_staff, posts, next_post_id, likes, post_tags,
                   tags, next_tag_id, next_comment_id, req, out>>

\* post.likes.add(user): the through table holds one row per (post, user).
Like(p, u) ==
    /\ p \in DOMAIN posts
    /\ u \in users
    /\ <<p, u>> \notin likes
    /\ likes' = likes \cup {<<p, u>>}
    /\ UNCHANGED <<users, is_staff, posts, next_post_id, post_tags, tags,
                   next_tag_id, comments, next_comment_id, req, out>>

\* post.tags.add(tag): the through table holds one row per (post, tag).
TagPost(p, t) ==
    /\ p \in DOMAIN posts
    /\ t \in DOMAIN tags
    /\ <<p, t>> \notin post_tags
    /\ post_tags' = post_tags \cup {<<p, t>>}
    /\ UNCHANGED <<users, is_staff, posts, next_post_id, likes, tags,
                   next_tag_id, comments, next_comment_id, req, out>>

\* ------------------------------------------------------ SQL aggregation
\* The NULL a LEFT OUTER JOIN puts where no row of the joined table matches.
NULL == 0

\* FROM base INNER JOIN rel: a base row that nothing matches has no row.
InnerJoin(base, rel) == {r \in rel : r[1] \in base}

\* FROM base LEFT OUTER JOIN rel ON (base.id = rel.<key>): rel is the set of
\* <<key, id>> pairs of the joined table; one row per matching pair, and one
\* row <<b, NULL>> for a base row that nothing matches.
LeftJoin(base, rel) ==
    {r \in rel : r[1] \in base}
        \cup {<<b, NULL>> : b \in {x \in base : \A r \in rel : r[1] # x}}

\* GROUP BY base.id: the groups are the base ids the joined rows hold.
Groups(rows) == {r[1] : r \in rows}

\* COUNT(*): every joined row of the group counts, the NULL one too.
CountStar(rows, b) == Cardinality({r \in rows : r[1] = b})

\* Count('<relation>') is COUNT(<joined table>.id) ... GROUP BY base.id: the
\* rows of the group whose joined id is not NULL.
Count(rows, b) == Cardinality({r \in rows : r[1] = b /\ r[2] # NULL})

\* blog_comment as <<post_id, id>> pairs, blog_post_tags as <<tag_id, post_id>>.
CommentRel == {<<comments[c].post, c>> : c \in DOMAIN comments}
TagPostRel == {<<r[2], r[1]>> : r \in post_tags}

\* ------------------------------------------------------------------- Tag
\* str.lower() on one character.
LowerChar(c) == IF c = "A" THEN "a" ELSE c

\* str.lower(): every character lowered, the length kept.
Lower(s) == [i \in 1..Len(s) |-> LowerChar(s[i])]

\* Tag.clean (line 94) without the lowering: the title is left as typed.
clean_unchanged(title) == title

\* Tag.clean: self.title = self.title.lower()
clean(title) == Lower(title)

\* unique=True on Tag.title: no other row holds the title (the comparison is
\* the database's, on the stored characters).
TitleFree(title, except) ==
    \A t \in DOMAIN tags : t # except => tags[t].title # title

PutTag(t, title, via) ==
    tags' = [x \in DOMAIN tags \cup {t} |->
                IF x = t THEN [title |-> title, via |-> via] ELSE tags[x]]

\* Tag.objects.create(title=...) / Tag(title=...).save(): Model.save() does not
\* call clean(); the row is inserted as given, the unique constraint checked.
TagCreate(title) ==
    /\ next_tag_id <= MaxTags
    /\ TitleFree(title, 0)
    /\ PutTag(next_tag_id, title, "save")
    /\ next_tag_id' = next_tag_id + 1
    /\ UNCHANGED <<users, is_staff, posts, next_post_id, likes, post_tags,
                   comments, next_comment_id, req, out>>

\* tag.title = ...; tag.save() on a stored tag, again without clean().
TagSave(t, title) ==
    /\ t \in DOMAIN tags
    /\ TitleFree(title, t)
    /\ PutTag(t, title, "save")
    /\ UNCHANGED <<users, is_staff, posts, next_post_id, likes, post_tags,
                   next_tag_id, comments, next_comment_id, req, out>>

\* A ModelForm / admin add: full_clean() runs clean() and then
\* validate_unique() on the cleaned title, then the row is inserted.
TagFormCreate(title) ==
    /\ next_tag_id <= MaxTags
    /\ TitleFree(clean(title), 0)
    /\ PutTag(next_tag_id, clean(title), "form")
    /\ next_tag_id' = next_tag_id + 1
    /\ UNCHANGED <<users, is_staff, posts, next_post_id, likes, post_tags,
                   comments, next_comment_id, req, out>>

\* A ModelForm / admin change of a stored tag.
TagFormSave(t, title) ==
    /\ t \in DOMAIN tags
    /\ TitleFree(clean(title), t)
    /\ PutTag(t, clean(title), "form")
    /\ UNCHANGED <<users, is_staff, posts, next_post_id, likes, post_tags,
                   next_tag_id, comments, next_comment_id, req, out>>

\* tag.delete(): the rows of blog_post_tags that name it go with it.
TagDelete(t) ==
    /\ t \in DOMAIN tags
    /\ tags' = [x \in DOMAIN tags \ {t} |-> tags[x]]
    /\ post_tags' = {r \in post_tags : r[2] # t}
    /\ UNCHANGED <<users, is_staff, posts, next_post_id, likes, next_tag_id,
                   comments, next_comment_id, req, out>>

NextTag ==
    \/ \E title \in Titles : TagCreate(title)
    \/ \E t \in 1..MaxTags, title \in Titles : TagSave(t, title)
    \/ \E title \in Titles : TagFormCreate(title)
    \/ \E t \in 1..MaxTags, title \in Titles : TagFormSave(t, title)
    \/ \E t \in 1..MaxTags : TagDelete(t)

SpecTag == Init /\ [][NextTag]_vars

\* C2 (as claimed): every stored Tag title equals its own lowercase form,
\* whichever path stored it.
C2_AllTitlesLower ==
    \A t \in DOMAIN tags : tags[t].title = Lower(tags[t].title)

\* C2 (amended): every Tag title stored through validation (full_clean, which
\* runs Tag.clean) equals its own lowercase form; a title stored by a direct
\* save or create is stored as given.
C2_ValidatedTitlesLower ==
    \A t \in DOMAIN tags :
        tags[t].via = "form" =>
            \A i \in 1..Len(tags[t].title) : tags[t].title[i] # "A"

\* A validated tag is stored whose title holds a letter that has an upper case.
C2_Witness ==
    \E t \in DOMAIN tags :
        /\ tags[t].via = "form"
        /\ \E i \in 1..Len(tags[t].title) : tags[t].title[i] = "a"

\* ------------------------------------------------------------ staff authors
NextStaff ==
    \/ \E a \in Users : PostCreate(a, 1)
    \/ \E a \in Users : PostFormCreate(a, 1)
    \/ \E p \in 1..MaxPosts, a \in Users : PostSave(p, a)
    \/ \E p \in 1..MaxPosts, a \in Users : PostFormSave(p, a)
    \/ \E u \in Users, b \in BOOLEAN : UserSetStaff(u, b)
    \/ \E p \in 1..MaxPosts : PostDelete(p)

SpecStaff == Init /\ [][NextStaff]_vars

\* C7 (as claimed): in every reachable state the author of every stored post
\* is a user whose is_staff flag is true.
C7_AuthorsAreStaff ==
    \A p \in DOMAIN posts : is_staff[posts[p].author]

\* C7 (amended): whenever a post is stored through validation (a form or the
\* admin, where limit_choices_to applies), its author is a stored user who is
\* staff at that moment; direct saves and later changes of is_staff are not
\* covered.
C7_ValidatedAuthorIsStaff ==
    [][\A p \in DOMAIN posts' :
          (/\ posts'[p].via = "form"
           /\ (p \notin DOMAIN posts \/ posts[p] # posts'[p]))
          => (posts'[p].author \in users /\ is_staff[posts'[p].author])]_vars

\* A post was stored through validation while some user is not staff.
C7_Witness ==
    /\ \E p \in DOMAIN posts : posts[p].via = "form"
    /\ \E u \in users : ~is_staff[u]

\* ------------------------------------------------------------------ cascade
NextCascade ==
    \/ \E a \in Users : PostCreate(a, 1)
    \/ \E p \in 1..MaxPosts, a \in Users : CommentCreate(p, a, 1)
    \/ \E p \in 1..MaxPosts : PostDelete(p)
    \/ \E u \in Users : UserDelete(u)

SpecCascade == Init /\ [][NextCascade]_vars

\* C3: every stored comment references a stored post, and a step that deletes
\* a post (post.delete(), no user deleted) leaves no comment of that post and
\* leaves every comment of the other posts as it was.
C3_CascadeDelete ==
    [][/\ \A c \in DOMAIN comments' : comments'[c].post \in DOMAIN posts'
       /\ \A p \in DOMAIN posts \ DOMAIN posts' :
            /\ \A c \in DOMAIN comments' : comments'[c].post # p
            /\ users' = users =>
                 \A c \in DOMAIN comments :
                    comments[c].post # p =>
                        (c \in DOMAIN comments' /\ comments'[c] = comments[c])]_vars

\* No user was ever deleted, a post is gone together with a comment (which
\* only its post's deletion can have removed), and a comment of another post
\* is still stored.
C3_Witness ==
    /\ users = Users
    /\ \E p \in 1..(next_post_id - 1) : p \notin DOMAIN posts
    /\ \E c \in 1..(next_comment_id - 1) : c \notin DOMAIN comments
    /\ DOMAIN comments # {}

\* ------------------------------------------------------------- ordering
\* An ordering term: 'field' is ascending, '-field' descending.
Asc(field) == [field |-> field, descending |-> FALSE]
Desc(field) == [field |-> field, descending |-> TRUE]

\* ORDER BY on the set of rows: every arrangement of the rows that the
\* ordering term allows. Rows that tie on the field come in any order (the
\* database's choice).
OrderBy(rowset, term) ==
    {s \in Perms(rowset) :
        \A i, j \in 1..Len(s) :
            i < j => IF term.descending
                     THEN s[i][term.field] >= s[j][term.field]
                     ELSE s[i][term.field] <= s[j][term.field]}

\* No ORDER BY at all: the rows in any order.
Unordered(rowset) == Perms(rowset)

\* ---------------------------------------------------- TagQuerySet.popular
\* order_by('-posts_count') of line 9.
TagPopularOrdering == Desc("posts_count")

\* annotate(posts_count=Count('posts')) on the tags S: blog_tag LEFT OUTER
\* JOIN blog_post_tags, grouped by tag.
TagsAnnotated(S) ==
    LET rows == LeftJoin(S, TagPostRel)
    IN  {[id |-> t, posts_count |-> Count(rows, t)] : t \in Groups(rows)}

\* Lines 8-10, evaluated on the queryset Tag.objects.filter(id__in=S).
TagPopular(S) ==
    /\ pc = "idle"
    /\ \E rows \in OrderBy(TagsAnnotated(S \cap DOMAIN tags), TagPopularOrdering) :
          result' = [op |-> "TagQuerySet.popular", self |-> S \cap DOMAIN tags,
                     rows |-> rows]
    /\ queries' = 1
    /\ pc' = "evaluated"
    /\ UNCHANGED <<db, self_cache, count_for_id, snap>>

\* --------------------------------------------------- PostQuerySet.popular
\* order_by('likes_count'), the minus sign lost.
PostPopularOrderingAsc == Asc("likes_count")

\* order_by('-likes_count') of line 23.
PostPopularOrdering == Desc("likes_count")

\* annotate(likes_count=Count('likes')) on the posts S: blog_post LEFT OUTER
\* JOIN blog_post_likes, grouped by post.
PostsAnnotated(S) ==
    LET rows == LeftJoin(S, likes)
    IN  {[id |-> p, likes_count |-> Count(rows, p)] : p \in Groups(rows)}

\* Lines 22-23, evaluated on the queryset Post.objects.filter(id__in=S).
PostPopular(S) ==
    /\ pc = "idle"
    /\ \E rows \in OrderBy(PostsAnnotated(S \cap DOMAIN posts), PostPopularOrdering) :
          result' = [op |-> "PostQuerySet.popular", self |-> S \cap DOMAIN posts,
                     rows |-> rows]
    /\ queries' = 1
    /\ pc' = "evaluated"
    /\ UNCHANGED <<db, self_cache, count_for_id, snap>>

\* ------------------------------------------------------ default orderings
\* ordering = ['published_at'] on Post, the minus sign lost.
PostMetaOrderingAsc == Asc("published_at")

\* Post.Meta.ordering = ['-published_at'] (line 81).
PostMetaOrdering == Desc("published_at")

\* Comment.Meta.ordering = ['published_at'] (line 123).
CommentMetaOrdering == Asc("published_at")

\* Post.objects.all(), evaluated: no explicit ordering, so Meta.ordering.
ListPosts ==
    /\ pc = "idle"
    /\ \E rows \in OrderBy({[id |-> p, published_at |-> posts[p].published_at] :
                              p \in DOMAIN posts}, PostMetaOrdering) :
          result' = [op |-> "Post.objects.all", self |-> DOMAIN posts, rows |-> rows]
    /\ queries' = 1
    /\ pc' = "evaluated"
    /\ UNCHANGED <<db, self_cache, count_for_id, snap>>

CommentRows(P, select_related) ==
    {[id |-> c, post |-> comments[c].post,
      published_at |-> comments[c].published_at, cache |-> select_related] :
        c \in {x \in DOMAIN comments : comments[x].post \in P}}

\* post.comments.all(), evaluated: the comments of the post, Meta.ordering.
ListComments(p) ==
    /\ pc = "idle"
    /\ p \in DOMAIN posts
    /\ \E rows \in OrderBy(CommentRows({p}, {}), CommentMetaOrdering) :
          result' = [op |-> "post.comments.all", self |-> {p}, rows |-> rows]
    /\ queries' = 1
    /\ pc' = "evaluated"
    /\ UNCHANGED <<db, self_cache, count_for_id, snap>>

\* ------------------------------------------------------ base_post_queryset
\* Comment.objects.all() in the Prefetch: the comments' authors not joined.
CommentSelectRelatedNone == {}

\* select_related('author') of line 15 and of line 17.
PostSelectRelated == {"author"}
CommentSelectRelated == {"author"}

\* The lookups of prefetch_related (lines 16-17).
PostPrefetch == {"tags", "comments"}

\* Count('likes', distinct=True): COUNT(DISTINCT <joined id>) of the group.
CountDistinct(rows, b) ==
    Cardinality({r[2] : r \in {x \in rows : x[1] = b /\ x[2] # NULL}})

\* The primary query (lines 15, 18-20) on the posts S: the post columns, the
\* author joined, likes_count. The query aggregates, and whether Meta.ordering
\* still orders an aggregating query depends on the framework's version, so
\* the rows come in any order.
PrimaryRows(S) ==
    LET rows == LeftJoin(S, likes)
    IN  Unordered({[id |-> p, published_at |-> posts[p].published_at,
                    likes_count |-> CountDistinct(rows, p)] : p \in Groups(rows)})

\* prefetch_related_objects: nothing is fetched for an empty result; else one
\* query per lookup, whatever the number of rows.
PrefetchQueries(rows) == IF rows = <<>> THEN 0 ELSE Cardinality(PostPrefetch)

\* The tags of post p as the first Prefetch loads them (line 16): each tag
\* annotated with posts_count, counted over all its posts.
PrefetchedTags(p) ==
    {x \in TagsAnnotated(DOMAIN tags) : <<p, x.id>> \in post_tags}

\* The comments query of the second Prefetch (line 17) for the posts P:
\* Comment.objects.select_related('author') under Comment.Meta.ordering.
PrefetchedComments(P) ==
    OrderBy(CommentRows(P, CommentSelectRelated), CommentMetaOrdering)

OfPost(crows, p) == SelectSeq(crows, LAMBDA c : c.post = p)

\* Lines 14-20, evaluated on Post.objects.filter(id__in=S): the primary query
\* and then the two prefetch queries, their rows attached to the posts.
BasePostQueryset(S) ==
    /\ pc = "idle"
    /\ \E prim \in PrimaryRows(S \cap DOMAIN posts) :
       \E crows \in PrefetchedComments(S \cap DOMAIN posts) :
          result' = [op |-> "base_post_queryset", self |-> S \cap DOMAIN posts,
                     rows |-> [i \in 1..Len(prim) |->
                        [id |-> prim[i].id,
                         published_at |-> prim[i].published_at,
                         likes_count |-> prim[i].likes_count,
                         cache |-> PostSelectRelated \cup PostPrefetch,
                         tags |-> PrefetchedTags(prim[i].id),
                         comments |-> OfPost(crows, prim[i].id)]]]
          /\ queries' = 1 + PrefetchQueries(prim)
    /\ pc' = "evaluated"
    /\ UNCHANGED <<db, self_cache, count_for_id, snap>>

\* The queries that reading the relation name of an instance issues: none
\* when the instance holds it cached, one otherwise.
ReadCost(cache, name) == IF name \in cache THEN 0 ELSE 1

\* Reading the author of each of the comments, from the i-th on.
RECURSIVE CommentsReadCost(_, _)
CommentsReadCost(crows, i) ==
    IF i > Len(crows) THEN 0
    ELSE ReadCost(crows[i].cache, "author") + CommentsReadCost(crows, i + 1)

\* Reading, for one post: author, tags (with each tag's posts_count, an
\* annotation), comments, each comment's author, likes_count (an annotation).
PostReadCost(row) ==
    ReadCost(row.cache, "author") + ReadCost(row.cache, "tags")
        + ReadCost(row.cache, "comments") + CommentsReadCost(row.comments, 1)

\* Reading them for each of the posts, from the i-th on.
RECURSIVE RowsReadCost(_, _)
RowsReadCost(rows, i) ==
    IF i > Len(rows) THEN 0
    ELSE PostReadCost(rows[i]) + RowsReadCost(rows, i + 1)

\* A template renders the evaluated base_post_queryset, reading every
\* related object of every post.
Render ==
    /\ pc = "evaluated"
    /\ result.op = "base_post_queryset"
    /\ queries' = queries + RowsReadCost(result.rows, 1)
    /\ pc' = "rendered"
    /\ UNCHANGED <<db, self_cache, count_for_id, snap, result>>

\* ------------------------------------------- fetch_with_comments_count
\* An in-memory Post instance: its id and the attributes set on it.
Instance(p) == [id |-> p, attrs |-> <<>>]

Ids(cache) == [i \in 1..Len(cache) |-> cache[i].id]

\* Line 41, [post.id for post in self]: the queryset is evaluated and its
\* rows cached. The queryset is any queryset over Post, so its rows are any
\* sequence of stored posts.
FetchIterate(rows) ==
    /\ pc = "idle"
    /\ Range(rows) \subseteq DOMAIN posts
    /\ self_cache' = [i \in 1..Len(rows) |-> Instance(rows[i])]
    /\ pc' = "line42"
    /\ UNCHANGED <<db, count_for_id, snap, out>>

\* Lines 42-44: Post.objects.filter(id__in=ids).annotate(
\* comments_count=Count('comments')).values_list('id', 'comments_count'),
\* made a dict.
CommentsCountById(ids) ==
    LET found == {p \in DOMAIN posts : p \in ids}
        rows == LeftJoin(found, CommentRel)
    IN  [p \in Groups(rows) |-> Count(rows, p)]

FetchCount ==
    /\ pc = "line42"
    /\ count_for_id' = CommentsCountById({self_cache[i].id : i \in 1..Len(self_cache)})
    /\ snap' = [posts |-> DOMAIN posts, comments |-> comments]
    /\ pc' = "line46"
    /\ UNCHANGED <<db, self_cache, out>>

\* dict.get(key, 0) in place of dict[key]: a missing key reads as 0.
LookupDefault(d, k) ==
    [found |-> TRUE, value |-> IF k \in DOMAIN d THEN d[k] ELSE 0]

\* d[k] of line 47: the value, or KeyError when k is no key of d.
Lookup(d, k) ==
    IF k \in DOMAIN d THEN [found |-> TRUE, value |-> d[k]]
    ELSE [found |-> FALSE, value |-> 0]

\* Lines 46-47: for post in self: post.comments_count = count_for_id[post.id],
\* from the i-th post on. The loop ends at the first KeyError, the posts before
\* it already assigned.
RECURSIVE AssignLoop(_, _, _)
AssignLoop(cache, d, i) ==
    IF i > Len(cache) THEN [cache |-> cache, pc |-> "returned"]
    ELSE LET got == Lookup(d, cache[i].id)
         IN  IF ~got.found THEN [cache |-> cache, pc |-> "KeyError"]
             ELSE AssignLoop(
                    [cache EXCEPT ![i].attrs = [comments_count |-> got.value]],
                    d, i + 1)

\* return of only the posts that have comments, in place of return self.
ReturnCommented(cache) ==
    SelectSeq(cache, LAMBDA post : post.attrs.comments_count > 0)

\* Line 48: return self.
ReturnValue(cache) == cache

\* Lines 46-48: the loop, then return self (or the KeyError propagates).
FetchAssign ==
    /\ pc = "line46"
    /\ LET done == AssignLoop(self_cache, count_for_id, 1)
       IN  /\ self_cache' = done.cache
           /\ pc' = done.pc
           /\ result' = IF done.pc = "returned"
                        THEN [op |-> "fetch_with_comments_count",
                              self |-> Range(Ids(done.cache)),
                              rows |-> ReturnValue(done.cache)]
                        ELSE result
    /\ UNCHANGED <<db, count_for_id, snap, queries>>

\* The request is over (a response or an unhandled exception); the next one
\* starts with nothing in memory.
RequestEnd ==
    /\ pc \in {"returned", "KeyError", "evaluated", "rendered"}
    /\ pc' = "idle"
    /\ self_cache' = <<>>
    /\ count_for_id' = <<>>
    /\ snap' = NoSnap
    /\ result' = NoResult
    /\ queries' = 0
    /\ UNCHANGED db

\* The request that runs fetch_with_comments_count, and the writes of the
\* other requests on the shared database between its queries.
Next ==
    \/ PostCreate(1, 1)
    \/ \E p \in 1..MaxPosts : PostDelete(p)
    \/ \E p \in 1..MaxPosts : CommentCreate(p, 1, 1)
    \/ \E c \in 1..MaxComments : CommentDelete(c)
    \/ \E rows \in SeqsUpTo(1..MaxPosts, MaxColl) : FetchIterate(rows)
    \/ FetchCount
    \/ FetchAssign
    \/ RequestEnd

Spec == Init /\ [][Next]_vars

\* C1: when fetch_with_comments_count returns, every post of the collection
\* carries comments_count, equal to the number of Comment rows of that post
\* in the table as the count query read it (0 for a post without comments).
C1_CountsAreTrue ==
    pc = "returned" =>
        \A i \in 1..Len(self_cache) :
            /\ "comments_count" \in DOMAIN self_cache[i].attrs
            /\ self_cache[i].attrs.comments_count =
                  Cardinality({c \in DOMAIN snap.comments :
                                  snap.comments[c].post = self_cache[i].id})

\* The call returned a collection holding a post without comments and a post
\* with comments.
C1_Witness ==
    /\ pc = "returned"
    /\ \E i, j \in 1..Len(self_cache) :
          /\ self_cache[i].attrs.comments_count = 0
          /\ self_cache[j].attrs.comments_count > 0

\* C4: once the call is over, a collection holding a post that the count
\* query did not find (it was deleted after the collection was materialized)
\* has ended in KeyError, not in a return.
C4_MissingPostRaises ==
    (/\ pc \in {"returned", "KeyError"}
     /\ \E i \in 1..Len(self_cache) : self_cache[i].id \notin snap.posts)
        => pc = "KeyError"

\* The call ended in KeyError, after a post before the missing one was
\* already given its count.
C4_Witness ==
    /\ pc = "KeyError"
    /\ \E i \in 1..Len(self_cache) : self_cache[i].id \notin snap.posts
    /\ \E i \in 1..Len(self_cache) : "comments_count" \in DOMAIN self_cache[i].attrs

\* ------------------------------------------------- popularity of posts
NextPostPopular ==
    \/ PostCreate(1, 1)
    \/ \E p \in 1..MaxPosts, u \in Users : Like(p, u)
    \/ \E S \in SUBSET (1..MaxPosts) : PostPopular(S)
    \/ RequestEnd

SpecPostPopular == Init /\ [][NextPostPopular]_vars

NonIncreasing(rows, field) ==
    \A i \in 1..(Len(rows) - 1) : rows[i][field] >= rows[i + 1][field]

NonDecreasing(rows, field) ==
    \A i \in 1..(Len(rows) - 1) : rows[i][field] <= rows[i + 1][field]

\* The rows hold each element of the set S once and nothing else.
EachOnce(rows, S) ==
    /\ Len(rows) = Cardinality(S)
    /\ {rows[i].id : i \in 1..Len(rows)} = S

NextTagPopular ==
    \/ \E title \in {t \in Titles : Len(t) = 1} : TagCreate(title)
    \/ PostCreate(1, 1)
    \/ \E p \in 1..MaxPosts, t \in 1..MaxTags : TagPost(p, t)
    \/ \E S \in SUBSET (1..MaxTags) : TagPopular(S)
    \/ RequestEnd

SpecTagPopular == Init /\ [][NextTagPopular]_vars

NextOrder ==
    \/ \E at \in Times : PostCreate(1, at)
    \/ \E p \in 1..MaxPosts, at \in Times : CommentCreate(p, 1, at)
    \/ ListPosts
    \/ \E p \in 1..MaxPosts : ListComments(p)
    \/ BasePostQueryset(1..MaxPosts)
    \/ RequestEnd

SpecOrder == Init /\ [][NextOrder]_vars

CommentsOf(p) == {c \in DOMAIN comments : comments[c].post = p}

NextHelpers ==
    \/ PostCreate(1, 1)
    \/ \E p \in 1..MaxPosts : CommentCreate(p, 1, 1)
    \/ \E p \in 1..MaxPosts : Like(p, 1)
    \/ TagCreate(<<"a">>)
    \/ \E p \in 1..MaxPosts : TagPost(p, 1)
    \/ TagPopular(1..MaxTags)
    \/ PostPopular(1..MaxPosts)
    \/ \E S \in SUBSET (1..MaxPosts) : BasePostQueryset(S)
    \/ Render
    \/ \E rows \in SeqsUpTo(1..MaxPosts, MaxColl) : FetchIterate(rows)
    \/ FetchCount
    \/ FetchAssign
    \/ RequestEnd

SpecHelpers == Init /\ [][NextHelpers]_vars

\* C8 (as claimed): evaluating base_post_queryset issues the primary query and
\* the two prefetch queries whatever the size of the result set, and reading
\* the related objects of the rows adds none.
C8_SameTotalForEverySize ==
    (result.op = "base_post_queryset" /\ pc \in {"evaluated", "rendered"})
        => queries = 1 + Cardinality(PostPrefetch)

\* C8 (amended): evaluating base_post_queryset issues the primary query and,
\* when the result set is not empty, exactly two prefetch queries (tags,
\* comments), so 3 queries for every non-empty result set whatever its size
\* and 1 query for an empty one; reading author, tags, each tag's
\* posts_count, comments, each comment's author and likes_count of the rows
\* issues no further query.
C8_BoundedQueries ==
    (result.op = "base_post_queryset" /\ pc \in {"evaluated", "rendered"})
        => /\ queries = IF Len(result.rows) = 0 THEN 1 ELSE 3
           /\ \A i \in 1..Len(result.rows) :
                 \A t \in result.rows[i].tags : t.posts_count >= 1

\* Two posts were returned and rendered, one of them with a tag and with a
\* comment.
C8_Witness ==
    /\ result.op = "base_post_queryset"
    /\ pc = "rendered"
    /\ Len(result.rows) >= 2
    /\ \E i \in 1..Len(result.rows) :
          result.rows[i].tags # {} /\ result.rows[i].comments # <<>>

\* C10: a step of a query helper (the request moving on from idle, line42 or
\* line46) leaves every table as it was, and fetch_with_comments_count
\* returns the collection it was called on: the same posts in the same order,
\* each changed only by the comments_count attribute set on it.
C10_HelpersReadOnly ==
    [][/\ (pc \in {"idle", "line42", "line46", "evaluated"} /\ pc' # pc)
            => db' = db
       /\ (pc = "line46" /\ pc' = "returned") =>
            /\ Ids(result'.rows) = Ids(self_cache)
            /\ result'.rows = self_cache'
            /\ \A i \in 1..Len(self_cache') :
                  DOMAIN self_cache'[i].attrs = {"comments_count"}]_vars

\* fetch_with_comments_count returned a collection of two posts, one without
\* comments, while the tables hold likes, tags and comments.
C10_Witness ==
    /\ pc = "returned"
    /\ result.op = "fetch_with_comments_count"
    /\ Len(result.rows) >= 2
    /\ \E i \in 1..Len(result.rows) : result.rows[i].attrs.comments_count = 0
    /\ likes # {} /\ post_tags # {} /\ DOMAIN comments # {}
====
